---- MODULE Spec2Model ----
(***************************************************************************)
(* The trial/session state machine of RFTFluency3D.tsx (an n-back game):   *)
(* stimulus generation, perspective transform, the self-rescheduling       *)
(* advance timer, response scoring, adaptive n-back level, countdown and   *)
(* the persisted session history.                                          *)
(*                                                                         *)
(* React state is modelled by one variable per useState/useRef.  A handler *)
(* reads the state of the render that created it: the pending advance      *)
(* callback and the keyboard listener therefore carry the values they      *)
(* closed over (the env of a timer, keyEnv), while functional updates      *)
(* (setNBack(n => n + 1)) act on the live value.                           *)
(***************************************************************************)
EXTENDS Integers, Sequences, FiniteSets, TLC

VARIABLES
    \* configuration (useState, lines 136-145)
    activeRules, perspectiveMode, perspectiveType, spatialType, spatialMatchMode,
    distractorsEnabled, controlSwapEnabled, useTimer, gameDurationSeconds,
    \* session state (useState, lines 148-159)
    isPlaying, score, timeLeftSeconds, nBack, autoProgress, currentRule, isSwapped,
    feedbackMsg,
    \* refs (useRef, lines 129-133 and 166-172)
    historyRef, scoreRef, turnTimerRef, gameIntervalRef,
    blockTurnCount, blockMistakes, totalMistakes, totalTurns, hasResponded,
    perspectiveMapping, lastStroopText,
    \* the browser's pending window.setTimeout(nextTurn, ...) callbacks and
    \* running window.setInterval countdowns, by timer id
    turnTimers, intervals,
    \* localStorage "rft_fluency_3d_history"
    storedHistory,
    \* closure of the registered keydown listener, and whether the timeout
    \* effect (lines 636-644) has to run for the last render
    keyEnv, effectDue

configVars == <<activeRules, perspectiveMode, perspectiveType, spatialType,
                spatialMatchMode, distractorsEnabled, controlSwapEnabled, useTimer,
                gameDurationSeconds>>

stateVars == <<isPlaying, score, timeLeftSeconds, nBack, autoProgress, currentRule,
               isSwapped, feedbackMsg>>

refVars == <<historyRef, scoreRef, turnTimerRef, gameIntervalRef, blockTurnCount,
             blockMistakes, totalMistakes, totalTurns, hasResponded,
             perspectiveMapping, lastStroopText>>

vars == <<configVars, stateVars, refVars, turnTimers, intervals, storedHistory,
          keyEnv, effectDue>>

(***************************************************************************)
(* Bounds of the exploration.                                              *)
(***************************************************************************)
\* trials per session explored by the short specifications
MaxTurns == 3
\* highest level the manual "+" button is explored to
MaxNBack == 2
\* levels the automatic changes are explored to
LevelsExplored == 0..(MaxNBack + 1)
\* records the persisted history is explored to
MaxRecords == 2
\* trials per session explored under the perspective configurations
MaxPerspTurns == 2
\* trials per session explored by the timed specification
MaxTimedTurns == 3
\* trials per session explored by the block specification
MaxBlockTurns == 21

(***************************************************************************)
(* Constants of the program.                                               *)
(***************************************************************************)
ALL_ATTRIBUTES == <<"color", "shape", "size", "position">>
COLORS == <<"red", "blue", "green">>
SHAPES == <<"cube", "sphere", "tetrahedron">>
SIZES == <<"small", "medium", "large">>
POSITIONS == <<"left", "center", "right">>
STROOP_WORDS == <<"RED", "BLUE", "GREEN">>
INTERVAL_MS == 3500
RESPONSE_DELAY_MS == 500
BLOCK_SIZE == 20

Range(s) == {s[i] : i \in 1..Len(s)}

Max(a, b) == IF a >= b THEN a ELSE b
Min(a, b) == IF a <= b THEN a ELSE b

\* Math.floor(a / b) for b > 0 (TLC's \div rounds towards minus infinity)
Floor(a, b) == a \div b

(***************************************************************************)
(* generateCyclicMapping: shuffle until no value keeps its place.          *)
(* shuffles is the sequence of outcomes of the successive                  *)
(* [...values].sort(() => Math.random() - 0.5); each is a permutation of   *)
(* 1..Len(values).  The loop keeps the first one without a fixed point.    *)
(***************************************************************************)
IsDerangement(p) == \A i \in 1..Len(p) : p[i] # i

\* a loop that keeps the first shuffle whatever it is
FirstShuffle(shuffles) == Head(shuffles)

RECURSIVE FirstValidShuffle(_)
FirstValidShuffle(shuffles) ==
    IF IsDerangement(Head(shuffles)) \/ Len(shuffles) = 1
    THEN Head(shuffles)
    ELSE FirstValidShuffle(Tail(shuffles))

generateCyclicMapping(values, shuffles) ==
    LET shuffled == FirstValidShuffle(shuffles)
    IN  [v \in Range(values) |->
            values[shuffled[CHOOSE i \in 1..Len(values) : values[i] = v]]]

scramblePerspectiveRules(shuffles) ==
    [color    |-> generateCyclicMapping(COLORS, shuffles.color),
     shape    |-> generateCyclicMapping(SHAPES, shuffles.shape),
     size     |-> generateCyclicMapping(SIZES, shuffles.size),
     position |-> generateCyclicMapping(POSITIONS, shuffles.position)]

\* perspectiveMapping.current before the first scramble: {}
NoMapping == [color |-> <<>>, shape |-> <<>>, size |-> <<>>, position |-> <<>>]

(***************************************************************************)
(* getTransformedValue (lines 276-306).  persp is the perspective          *)
(* configuration of the render the caller belongs to, mapping is           *)
(* perspectiveMapping.current.                                             *)
(***************************************************************************)
\* [a, b].sort().join("-"): the default sort compares the strings
StringRank(c) == CASE c = "blue" -> 1 [] c = "green" -> 2 [] c = "red" -> 3

\* a join that keeps the front colour first
JoinUnsorted(a, b) == <<a, b>>

SortedJoin(a, b) == IF StringRank(a) <= StringRank(b) THEN <<a, b>> ELSE <<b, a>>

\* a transform that never looks at the observer or the tables
getTransformedValueRaw(stim, rule, persp, mapping) == stim[rule]

\* a transform that mirrors the position for both observers
getTransformedValueMirrored(stim, rule, persp, mapping) ==
    IF rule # "position" THEN stim[rule]
    ELSE IF stim.position = "left" THEN "right"
    ELSE IF stim.position = "right" THEN "left"
    ELSE "center"

getTransformedValue(stim, rule, persp, mapping) ==
    IF ~persp.perspectiveMode THEN stim[rule]
    ELSE IF persp.perspectiveType = "symbolic" THEN
        IF stim.observerPos = "me" THEN stim[rule]
        ELSE IF mapping[rule] # <<>> THEN mapping[rule][stim[rule]] ELSE stim[rule]
    ELSE IF persp.perspectiveType = "spatial" THEN
        IF rule = "position" THEN
            IF persp.spatialMatchMode = "object" THEN stim.position
            ELSE IF stim.observerPos = "me" THEN stim.position
            ELSE IF stim.position = "left" THEN "right"
            ELSE IF stim.position = "right" THEN "left"
            ELSE "center"
        ELSE IF rule = "color" THEN
            IF persp.spatialMatchMode = "object"
            THEN SortedJoin(stim.color, stim.backColor)
            ELSE IF stim.observerPos = "me" THEN stim.color ELSE stim.backColor
        ELSE stim[rule]
    ELSE stim[rule]

(***************************************************************************)
(* generateStimulus (lines 390-421).  env holds the configuration the      *)
(* calling nextTurn closed over, rnd the outcomes of the Math.random()     *)
(* calls: indices are 1-based, rnd.back is the sequence of backColor       *)
(* draws the resampling loop consumes.                                     *)
(***************************************************************************)
\* a back colour that is drawn once and never drawn again
ResampleNever(draws, color) == COLORS[Head(draws)]

RECURSIVE Resample(_, _)
Resample(draws, color) ==
    IF COLORS[Head(draws)] # color \/ Len(draws) = 1
    THEN COLORS[Head(draws)]
    ELSE Resample(Tail(draws), color)

\* the draws make the while loop of line 393 stop
BackDrawsEnd(draws, colorIdx) ==
    /\ draws[Len(draws)] # colorIdx
    /\ \A i \in 1..(Len(draws) - 1) : draws[i] = colorIdx

NetColors(net, color, backColor) ==
    [i \in 1..6 |-> IF i = 3 THEN color
                    ELSE IF i = 6 THEN backColor
                    ELSE COLORS[net[i]]]

StroopText(first, second, last) ==
    IF STROOP_WORDS[first] = last THEN STROOP_WORDS[second] ELSE STROOP_WORDS[first]

\* a membership test that always succeeds
InSeqAlways(x, s) == TRUE

InSeq(x, s) == x \in Range(s)

generateStimulus(env, rnd, last, stamp) ==
    LET color == COLORS[rnd.color]
        backColor == Resample(rnd.back, color)
        varyShape == InSeq("shape", env.activeRules) \/ env.distractorsEnabled
        spatial == env.perspectiveMode /\ env.perspectiveType = "spatial"
        shape == IF spatial /\ env.spatialType # "cutout" THEN "cube"
                 ELSE IF spatial /\ env.spatialType = "cutout"
                      THEN (IF rnd.cut THEN "cube" ELSE "sphere")
                 ELSE IF varyShape THEN SHAPES[rnd.shape] ELSE "cube"
        varySize == InSeq("size", env.activeRules) \/ env.distractorsEnabled
        varyPos == InSeq("position", env.activeRules) \/ env.distractorsEnabled
    IN  [color       |-> color,
         backColor   |-> backColor,
         netColors   |-> NetColors(rnd.net, color, backColor),
         shape       |-> shape,
         size        |-> IF varySize THEN SIZES[rnd.size] ELSE "medium",
         position    |-> IF varyPos THEN POSITIONS[rnd.position] ELSE "center",
         id          |-> stamp,
         stroopText  |-> StroopText(rnd.stroop1, rnd.stroop2, last),
         stroopInk   |-> COLORS[rnd.ink],
         observerPos |-> IF rnd.me THEN "me" ELSE "opposite"]

(***************************************************************************)
(* Closures.  nextTurn is memoised on the ten values below (line 495) and  *)
(* reschedules itself, so a chain of timer-driven advances keeps reading   *)
(* the values of the render that created it.                               *)
(***************************************************************************)
LiveEnv ==
    [nBack              |-> nBack,
     autoProgress       |-> autoProgress,
     useTimer           |-> useTimer,
     activeRules        |-> activeRules,
     controlSwapEnabled |-> controlSwapEnabled,
     distractorsEnabled |-> distractorsEnabled,
     perspectiveMode    |-> perspectiveMode,
     perspectiveType    |-> perspectiveType,
     spatialType        |-> spatialType,
     spatialMatchMode   |-> spatialMatchMode]

\* the keydown effect (lines 649-663) registers a new listener only when one
\* of isPlaying, isSwapped, currentRule, nBack changed
KeyDeps == <<isPlaying, isSwapped, currentRule, nBack>>

\* the timeout effect (lines 636-644) runs when one of these changed
EffectDeps == <<timeLeftSeconds, isPlaying, useTimer>>

Rerender ==
    /\ keyEnv' = IF KeyDeps' # KeyDeps THEN LiveEnv' ELSE keyEnv
    /\ effectDue' = (EffectDeps' # EffectDeps)

(***************************************************************************)
(* Timers.  A timer id is the smallest positive integer no pending timer   *)
(* holds; clearTimeout / clearInterval of an id that is not pending does   *)
(* nothing.                                                                *)
(***************************************************************************)
Ids(timers) == {t.id : t \in timers}

FreshId(timers) == CHOOSE i \in 1..(Cardinality(timers) + 1) : i \notin Ids(timers)

clearTimeout(timers, id) == {t \in timers : t.id # id}

\* scheduling that does not cancel the advance already pending
RescheduleKeeping(timers, ref, delay, env) ==
    timers \cup {[id |-> FreshId(timers), delay |-> delay, env |-> env]}

\* scheduling that cancels the pending advance and sets no new one
RescheduleCancelOnly(timers, ref, delay, env) ==
    IF ref # 0 THEN clearTimeout(timers, ref) ELSE timers

\* if (turnTimerRef.current) clearTimeout(turnTimerRef.current);
\* turnTimerRef.current = window.setTimeout(nextTurn, delay)
Reschedule(timers, ref, delay, env) ==
    LET kept == IF ref # 0 THEN clearTimeout(timers, ref) ELSE timers
    IN  kept \cup {[id |-> FreshId(kept), delay |-> delay, env |-> env]}

RescheduledRef(timers, ref) ==
    FreshId(IF ref # 0 THEN clearTimeout(timers, ref) ELSE timers)

(***************************************************************************)
(* Scoring (handleInput, lines 593-619).                                   *)
(***************************************************************************)
\* a judgement that takes every response for "match"
IsCorrectIgnoringAction(action, isMatch) == isMatch

IsCorrect(action, isMatch) ==
    IF action = "match" THEN isMatch ELSE ~isMatch

\* a bonus with no lower clamp
speedBonusUnclamped(reactionTime) ==
    Min(10, Floor(2000 - reactionTime, 150))

speedBonus(reactionTime) ==
    Max(0, Min(10, Floor(2000 - reactionTime, 150)))

\* points on a base of 20
PointsBaseTwenty(level, bonus) == 20 + level * 5 + bonus

Points(level, bonus) == 10 + level * 5 + bonus

CorrectFeedback(bonus) ==
    IF bonus > 5
    THEN CASE bonus = 6 -> "FAST! +6" [] bonus = 7 -> "FAST! +7"
           [] bonus = 8 -> "FAST! +8" [] bonus = 9 -> "FAST! +9"
           [] OTHER -> "FAST! +10"
    ELSE "Correct!"

(***************************************************************************)
(* nextTurn (lines 455-495) and checkProgression (lines 429-446).          *)
(***************************************************************************)
\* a miss check that does not ask whether the trial was answered
MissedTargetAnswered(isReset, history, env, responded) ==
    ~isReset /\ Len(history) > env.nBack

\* line 459: the previous trial was a missed target
MissedTarget(isReset, history, env, responded) ==
    ~isReset /\ Len(history) > env.nBack /\ ~responded

\* line 430: checkProgression evaluates the block
BlockEvaluated(env, turns) ==
    env.autoProgress /\ turns >= BLOCK_SIZE /\ ~env.useTimer

\* accuracy >= 80, accuracy < 50 for accuracy = (turns - mistakes) / turns * 100
AccuracyAtLeast80(turns, mistakes) == (turns - mistakes) * 100 >= 80 * turns
AccuracyBelow50(turns, mistakes) == (turns - mistakes) * 100 < 50 * turns

\* lines 432-442: the change checkProgression applies with setNBack(n => n + d)
LevelChange(env, turns, mistakes) ==
    IF AccuracyAtLeast80(turns, mistakes) THEN 1
    ELSE IF AccuracyBelow50(turns, mistakes) /\ env.nBack > 1 THEN 0 - 1
    ELSE 0

LevelFeedback(change, feedback) ==
    IF change = 1 THEN "LEVEL UP!"
    ELSE IF change = 0 - 1 THEN "Level Down"
    ELSE feedback

\* an advance that never starts the countdown
CountdownNever(env, intervalRef, history) == FALSE

\* line 481: the countdown is started by this advance
CountdownStarts(env, intervalRef, history) ==
    env.useTimer /\ intervalRef = 0 /\ Len(history) > env.nBack

\* The values nextTurn leaves behind, from the values pre it finds.
nextTurn(pre, isReset, env, rnd) ==
    LET missed    == MissedTarget(isReset, pre.historyRef, env, pre.hasResponded)
        penalty   == IF missed THEN 5 ELSE 0
        slip      == IF missed THEN 1 ELSE 0
        mistakes  == pre.blockMistakes + slip
        evaluated == BlockEvaluated(env, pre.blockTurnCount)
        change    == IF evaluated
                     THEN LevelChange(env, pre.blockTurnCount, mistakes)
                     ELSE 0
        stim      == generateStimulus(env, rnd, pre.lastStroopText,
                                      Len(pre.historyRef) + 1)
        history   == Append(pre.historyRef, stim)
        starts    == CountdownStarts(env, pre.gameIntervalRef, history)
    IN  [score           |-> pre.score - penalty,
         scoreRef        |-> pre.scoreRef - penalty,
         totalMistakes   |-> pre.totalMistakes + slip,
         blockMistakes   |-> IF evaluated THEN 0 ELSE mistakes,
         blockTurnCount  |-> (IF evaluated THEN 0 ELSE pre.blockTurnCount) + 1,
         totalTurns      |-> pre.totalTurns + 1,
         nBack           |-> pre.nBack + change,
         feedbackMsg     |-> LevelFeedback(change,
                                 IF missed THEN "Too Slow!" ELSE pre.feedbackMsg),
         isSwapped       |-> IF env.controlSwapEnabled THEN rnd.swap ELSE FALSE,
         currentRule     |-> env.activeRules[rnd.rule],
         historyRef      |-> history,
         lastStroopText  |-> stim.stroopText,
         hasResponded    |-> FALSE,
         gameIntervalRef |-> IF starts THEN FreshId(pre.intervals)
                             ELSE pre.gameIntervalRef,
         intervals       |-> IF starts
                             THEN pre.intervals \cup {FreshId(pre.intervals)}
                             ELSE pre.intervals,
         turnTimerRef    |-> RescheduledRef(pre.turnTimers, pre.turnTimerRef),
         turnTimers      |-> Reschedule(pre.turnTimers, pre.turnTimerRef,
                                        INTERVAL_MS, env)]

\* an advance that keeps only the new stimulus in the history
ApplyTurnForgetting(r) ==
    /\ score' = r.score
    /\ scoreRef' = r.scoreRef
    /\ totalMistakes' = r.totalMistakes
    /\ blockMistakes' = r.blockMistakes
    /\ blockTurnCount' = r.blockTurnCount
    /\ totalTurns' = r.totalTurns
    /\ nBack' = r.nBack
    /\ feedbackMsg' = r.feedbackMsg
    /\ isSwapped' = r.isSwapped
    /\ currentRule' = r.currentRule
    /\ historyRef' = <<r.historyRef[Len(r.historyRef)]>>
    /\ lastStroopText' = r.lastStroopText
    /\ hasResponded' = r.hasResponded
    /\ gameIntervalRef' = r.gameIntervalRef
    /\ intervals' = r.intervals
    /\ turnTimerRef' = r.turnTimerRef
    /\ turnTimers' = r.turnTimers

\* the assignments every caller of nextTurn makes from its result
ApplyTurn(r) ==
    /\ score' = r.score
    /\ scoreRef' = r.scoreRef
    /\ totalMistakes' = r.totalMistakes
    /\ blockMistakes' = r.blockMistakes
    /\ blockTurnCount' = r.blockTurnCount
    /\ totalTurns' = r.totalTurns
    /\ nBack' = r.nBack
    /\ feedbackMsg' = r.feedbackMsg
    /\ isSwapped' = r.isSwapped
    /\ currentRule' = r.currentRule
    /\ historyRef' = r.historyRef
    /\ lastStroopText' = r.lastStroopText
    /\ hasResponded' = r.hasResponded
    /\ gameIntervalRef' = r.gameIntervalRef
    /\ intervals' = r.intervals
    /\ turnTimerRef' = r.turnTimerRef
    /\ turnTimers' = r.turnTimers

\* the refs and state nextTurn reads, as they are when a handler calls it
Current ==
    [score |-> score, scoreRef |-> scoreRef, totalMistakes |-> totalMistakes,
     blockMistakes |-> blockMistakes, blockTurnCount |-> blockTurnCount,
     totalTurns |-> totalTurns, nBack |-> nBack, feedbackMsg |-> feedbackMsg,
     historyRef |-> historyRef, lastStroopText |-> lastStroopText,
     hasResponded |-> hasResponded, gameIntervalRef |-> gameIntervalRef,
     intervals |-> intervals, turnTimerRef |-> turnTimerRef,
     turnTimers |-> turnTimers]

(***************************************************************************)
(* The state after construction: the useState defaults (lines 136-172)     *)
(* overlaid by loadSettings (lines 666-695) with the settings found in     *)
(* localStorage.  The keydown listener registered by the first render      *)
(* still holds the defaults.                                               *)
(***************************************************************************)
DefaultEnv ==
    [nBack              |-> 1,
     autoProgress       |-> TRUE,
     useTimer           |-> TRUE,
     activeRules        |-> <<"color">>,
     controlSwapEnabled |-> FALSE,
     distractorsEnabled |-> FALSE,
     perspectiveMode    |-> FALSE,
     perspectiveType    |-> "symbolic",
     spatialType        |-> "rotation",
     spatialMatchMode   |-> "view"]

InitWith(saved) ==
    /\ activeRules = saved.activeRules
    /\ perspectiveMode = saved.perspectiveMode
    /\ perspectiveType = saved.perspectiveType
    /\ spatialType = saved.spatialType
    /\ spatialMatchMode = saved.spatialMatchMode
    /\ distractorsEnabled = saved.distractorsEnabled
    /\ controlSwapEnabled = saved.controlSwapEnabled
    /\ useTimer = saved.useTimer
    /\ gameDurationSeconds = saved.gameDurationSeconds
    /\ isPlaying = FALSE
    /\ score = 0
    /\ timeLeftSeconds = 60
    /\ nBack = 1
    /\ autoProgress = TRUE
    /\ currentRule = "color"
    /\ isSwapped = FALSE
    /\ feedbackMsg = ""
    /\ historyRef = <<>>
    /\ scoreRef = 0
    /\ turnTimerRef = 0
    /\ gameIntervalRef = 0
    /\ blockTurnCount = 0
    /\ blockMistakes = 0
    /\ totalMistakes = 0
    /\ totalTurns = 0
    /\ hasResponded = FALSE
    /\ perspectiveMapping = NoMapping
    /\ lastStroopText = ""
    /\ turnTimers = {}
    /\ intervals = {}
    /\ storedHistory = <<>>
    /\ keyEnv = DefaultEnv
    /\ effectDue = FALSE

(***************************************************************************)
(* startGame (lines 497-521).  The Start button exists only while no       *)
(* session is running (line 896).                                          *)
(***************************************************************************)
clearInterval(running, id) == running \ {id}

\* a start that keeps the score and the mistakes of the previous session
startGameKeepingScore(Rnds, Shuffles) ==
    /\ ~effectDue
    /\ ~isPlaying
    /\ useTimer => Len(storedHistory) < MaxRecords
    /\ \E rnd \in Rnds, shuffles \in Shuffles :
        /\ rnd.rule <= Len(activeRules)
        /\ perspectiveMapping' = IF perspectiveMode
                                 THEN scramblePerspectiveRules(shuffles)
                                 ELSE perspectiveMapping
        /\ isPlaying' = TRUE
        /\ timeLeftSeconds' = gameDurationSeconds
        /\ LET pre == [Current EXCEPT
                           !.historyRef = <<>>,
                           !.totalTurns = 0, !.blockTurnCount = 0,
                           !.hasResponded = FALSE,
                           !.intervals = IF gameIntervalRef # 0
                                         THEN clearInterval(intervals,
                                                            gameIntervalRef)
                                         ELSE intervals,
                           !.gameIntervalRef = 0]
           IN  ApplyTurn(nextTurn(pre, TRUE, LiveEnv, rnd))
        /\ UNCHANGED <<configVars, autoProgress, storedHistory>>
    /\ Rerender

startGame(Rnds, Shuffles) ==
    /\ ~effectDue
    /\ ~isPlaying
    /\ useTimer => Len(storedHistory) < MaxRecords
    /\ IF Len(activeRules) = 0
       THEN /\ feedbackMsg' = "Select Rules!"
            /\ UNCHANGED <<configVars, isPlaying, score, timeLeftSeconds, nBack,
                           autoProgress, currentRule, isSwapped, refVars,
                           turnTimers, intervals, storedHistory>>
       ELSE \E rnd \in Rnds, shuffles \in Shuffles :
            /\ rnd.rule <= Len(activeRules)
            /\ perspectiveMapping' = IF perspectiveMode
                                     THEN scramblePerspectiveRules(shuffles)
                                     ELSE perspectiveMapping
            /\ isPlaying' = TRUE
            /\ timeLeftSeconds' = gameDurationSeconds
            /\ LET pre == [Current EXCEPT
                               !.score = 0, !.scoreRef = 0, !.historyRef = <<>>,
                               !.totalMistakes = 0, !.blockMistakes = 0,
                               !.totalTurns = 0, !.blockTurnCount = 0,
                               !.hasResponded = FALSE,
                               !.intervals = IF gameIntervalRef # 0
                                             THEN clearInterval(intervals,
                                                                gameIntervalRef)
                                             ELSE intervals,
                               !.gameIntervalRef = 0]
               IN  ApplyTurn(nextTurn(pre, TRUE, LiveEnv, rnd))
            /\ UNCHANGED <<configVars, autoProgress, storedHistory>>
    /\ Rerender

(***************************************************************************)
(* stopGame (lines 523-530).  The Stop button exists only while a session  *)
(* is running (line 908).                                                  *)
(***************************************************************************)
\* a stop that leaves the scheduled advance pending
stopGameKeepingTimer ==
    /\ ~effectDue
    /\ isPlaying
    /\ isPlaying' = FALSE
    /\ intervals' = IF gameIntervalRef # 0
                    THEN clearInterval(intervals, gameIntervalRef)
                    ELSE intervals
    /\ gameIntervalRef' = 0
    /\ feedbackMsg' = "Stopped"
    /\ UNCHANGED <<configVars, score, timeLeftSeconds, nBack, autoProgress,
                   currentRule, isSwapped, historyRef, scoreRef, turnTimerRef,
                   blockTurnCount, blockMistakes, totalMistakes, totalTurns,
                   hasResponded, perspectiveMapping, lastStroopText,
                   turnTimers, storedHistory>>
    /\ Rerender

\* a stop that records the session the way the timeout does
stopGameRecorded ==
    /\ ~effectDue
    /\ isPlaying
    /\ isPlaying' = FALSE
    /\ turnTimers' = IF turnTimerRef # 0
                     THEN clearTimeout(turnTimers, turnTimerRef)
                     ELSE turnTimers
    /\ intervals' = IF gameIntervalRef # 0
                    THEN clearInterval(intervals, gameIntervalRef)
                    ELSE intervals
    /\ gameIntervalRef' = 0
    /\ feedbackMsg' = "Stopped"
    /\ storedHistory' = Append(storedHistory,
                               [score |-> scoreRef,
                                accuracy |-> <<(totalTurns - totalMistakes) * 100,
                                               totalTurns>>,
                                maxNBack |-> nBack])
    /\ UNCHANGED <<configVars, score, timeLeftSeconds, nBack, autoProgress,
                   currentRule, isSwapped, historyRef, scoreRef, turnTimerRef,
                   blockTurnCount, blockMistakes, totalMistakes, totalTurns,
                   hasResponded, perspectiveMapping, lastStroopText>>
    /\ Rerender

stopGame ==
    /\ ~effectDue
    /\ isPlaying
    /\ isPlaying' = FALSE
    /\ turnTimers' = IF turnTimerRef # 0
                     THEN clearTimeout(turnTimers, turnTimerRef)
                     ELSE turnTimers
    /\ intervals' = IF gameIntervalRef # 0
                    THEN clearInterval(intervals, gameIntervalRef)
                    ELSE intervals
    /\ gameIntervalRef' = 0
    /\ feedbackMsg' = "Stopped"
    /\ UNCHANGED <<configVars, score, timeLeftSeconds, nBack, autoProgress,
                   currentRule, isSwapped, historyRef, scoreRef, turnTimerRef,
                   blockTurnCount, blockMistakes, totalMistakes, totalTurns,
                   hasResponded, perspectiveMapping, lastStroopText,
                   storedHistory>>
    /\ Rerender

(***************************************************************************)
(* A pending window.setTimeout(nextTurn, ...) fires: nextTurn() runs with  *)
(* the values its closure holds.                                           *)
(***************************************************************************)
TurnTimerFires(Rnds, maxTurns) ==
    /\ ~effectDue
    /\ totalTurns < maxTurns
    /\ \E t \in turnTimers, rnd \in Rnds :
        /\ rnd.rule <= Len(t.env.activeRules)
        /\ LET pre == [Current EXCEPT !.turnTimers = turnTimers \ {t}]
               r   == nextTurn(pre, FALSE, t.env, rnd)
           IN  r.nBack \in LevelsExplored /\ ApplyTurn(r)
    /\ UNCHANGED <<configVars, isPlaying, timeLeftSeconds, autoProgress,
                   perspectiveMapping, storedHistory>>
    /\ Rerender

(***************************************************************************)
(* handleInput (lines 583-623) and handlePhysicalSide (lines 626-634).     *)
(* env is the closure of the handler that runs, reactionTime is            *)
(* Date.now() - currentStim.id.                                            *)
(***************************************************************************)
PhysicalSides == {"left", "right"}

UserActions == {"match", "non_match"}

\* a mapping that ignores the swap
handlePhysicalSideUnswapped(side, swapped) ==
    IF side = "left" THEN "match" ELSE "non_match"

handlePhysicalSide(side, swapped) ==
    IF ~swapped
    THEN (IF side = "left" THEN "match" ELSE "non_match")
    ELSE (IF side = "left" THEN "non_match" ELSE "match")

\* a guard that forgets the responded flag
InputIgnoredRepeatable(playing, history, level, responded) ==
    ~playing \/ Len(history) <= level

\* a guard that lets a response through once history length = n-back
InputIgnoredFromLevel(playing, history, level, responded) ==
    ~playing \/ Len(history) < level \/ responded

\* line 584: the input is ignored
InputIgnored(playing, history, level, responded) ==
    ~playing \/ Len(history) <= level \/ responded

\* a penalty that grows with the level
ScoredLevelPenalty(correct, action, level, bonus) ==
    IF correct
    THEN [points |-> Points(level, bonus), slip |-> 0,
          feedback |-> CorrectFeedback(bonus)]
    ELSE [points |-> 0 - 5 * level, slip |-> 1,
          feedback |-> IF action = "non_match" THEN "Missed!" ELSE "Incorrect!"]

\* lines 605-619: the points, the mistake and the feedback of a response
Scored(correct, action, level, bonus) ==
    IF correct
    THEN [points |-> Points(level, bonus), slip |-> 0,
          feedback |-> CorrectFeedback(bonus)]
    ELSE [points |-> 0 - 5, slip |-> 1,
          feedback |-> IF action = "non_match" THEN "Missed!" ELSE "Incorrect!"]

handleInput(action, env, reactionTime) ==
    IF InputIgnored(isPlaying, historyRef, env.nBack, hasResponded)
    THEN UNCHANGED vars
    ELSE IF (Len(historyRef) - env.nBack) \notin 1..Len(historyRef)
    THEN \* targetStim is undefined: getTransformedValue throws a TypeError
         \* after line 585 has set the flag
         /\ hasResponded' = TRUE
         /\ UNCHANGED <<configVars, stateVars, historyRef, scoreRef, turnTimerRef,
                        gameIntervalRef, blockTurnCount, blockMistakes,
                        totalMistakes, totalTurns, perspectiveMapping,
                        lastStroopText, turnTimers, intervals, storedHistory>>
         /\ Rerender
    ELSE LET currentStim == historyRef[Len(historyRef)]
             targetStim  == historyRef[Len(historyRef) - env.nBack]
             val1    == getTransformedValue(currentStim, currentRule, env,
                                            perspectiveMapping)
             val2    == getTransformedValue(targetStim, currentRule, env,
                                            perspectiveMapping)
             isMatch == val1 = val2
             correct == IsCorrect(action, isMatch)
             result  == Scored(correct, action, env.nBack,
                               speedBonus(reactionTime))
         IN  /\ hasResponded' = TRUE
             /\ score' = score + result.points
             /\ scoreRef' = scoreRef + result.points
             /\ totalMistakes' = totalMistakes + result.slip
             /\ blockMistakes' = blockMistakes + result.slip
             /\ feedbackMsg' = result.feedback
             /\ turnTimers' = Reschedule(turnTimers, turnTimerRef,
                                         RESPONSE_DELAY_MS, env)
             /\ turnTimerRef' = RescheduledRef(turnTimers, turnTimerRef)
             /\ UNCHANGED <<configVars, isPlaying, timeLeftSeconds, nBack,
                            autoProgress, currentRule, isSwapped, historyRef,
                            gameIntervalRef, blockTurnCount, totalTurns,
                            perspectiveMapping, lastStroopText, intervals,
                            storedHistory>>
             /\ Rerender

\* a tap zone is clicked (lines 990-998): the handler of the last render
ClickSide(Sides, Times) ==
    /\ ~effectDue
    /\ isPlaying
    /\ \E side \in Sides, reactionTime \in Times :
        handleInput(handlePhysicalSide(side, isSwapped), LiveEnv, reactionTime)

\* a key is pressed (lines 650-660): the handler the listener closed over
KeySide(Sides, Times) ==
    /\ ~effectDue
    /\ IF ~isPlaying
       THEN UNCHANGED vars
       ELSE \E side \in Sides, reactionTime \in Times :
               handleInput(handlePhysicalSide(side, isSwapped), keyEnv,
                           reactionTime)

(***************************************************************************)
(* The countdown: startTimer's interval callback (lines 450-452).          *)
(***************************************************************************)
IntervalTick ==
    /\ ~effectDue
    /\ intervals # {}
    /\ timeLeftSeconds' = timeLeftSeconds - 1
    /\ UNCHANGED <<configVars, isPlaying, score, nBack, autoProgress, currentRule,
                   isSwapped, feedbackMsg, refVars, turnTimers, intervals,
                   storedHistory>>
    /\ Rerender

(***************************************************************************)
(* endGame (lines 532-562) and saveHistory (lines 564-581).  The accuracy  *)
(* (totalTurns - totalMistakes) / totalTurns * 100 is kept as the fraction *)
(* <<numerator, denominator>>.                                             *)
(***************************************************************************)
SessionAccuracy(turns, mistakes) ==
    IF turns > 0 THEN <<(turns - mistakes) * 100, turns>> ELSE <<0, 1>>

\* an adjustment that does not ask for auto-progress
SessionLevelChangeAlways(timedOut, auto, turns, mistakes, level) ==
    IF timedOut /\ turns > 0
    THEN IF AccuracyAtLeast80(turns, mistakes) THEN 1
         ELSE IF level > 1 /\ AccuracyBelow50(turns, mistakes) THEN 0 - 1
         ELSE 0
    ELSE 0

\* lines 544-556: the change endGame applies with setNBack(n => n + d)
SessionLevelChange(timedOut, auto, turns, mistakes, level) ==
    IF timedOut /\ auto /\ turns > 0
    THEN IF AccuracyAtLeast80(turns, mistakes) THEN 1
         ELSE IF level > 1 /\ AccuracyBelow50(turns, mistakes) THEN 0 - 1
         ELSE 0
    ELSE 0

SessionFeedback(timedOut, auto, turns, change, feedback) ==
    IF timedOut /\ auto /\ turns > 0
    THEN IF change = 1 THEN "LEVEL UP!"
         ELSE IF change = 0 - 1 THEN "Level Down"
         ELSE "Time Expired"
    ELSE feedback

\* a record that holds the level after the adjustment
saveHistoryLiveLevel(stored, accuracy, levelPlayed, finalScore) ==
    Append(stored, [score |-> finalScore, accuracy |-> accuracy,
                    maxNBack |-> nBack'])

\* a collection that keeps the latest record only
saveHistoryCapped(stored, accuracy, levelPlayed, finalScore) ==
    <<[score |-> finalScore, accuracy |-> accuracy, maxNBack |-> levelPlayed]>>

saveHistory(stored, accuracy, levelPlayed, finalScore) ==
    Append(stored, [score |-> finalScore, accuracy |-> accuracy,
                    maxNBack |-> levelPlayed])

endGame(timedOut) ==
    IF timedOut /\ gameIntervalRef = 0
    THEN UNCHANGED <<configVars, stateVars, refVars, turnTimers, intervals,
                     storedHistory>>
    ELSE LET accuracy    == SessionAccuracy(totalTurns, totalMistakes)
             levelPlayed == nBack
             change      == SessionLevelChange(timedOut, autoProgress, totalTurns,
                                               totalMistakes, nBack)
         IN  /\ isPlaying' = FALSE
             /\ turnTimers' = IF turnTimerRef # 0
                              THEN clearTimeout(turnTimers, turnTimerRef)
                              ELSE turnTimers
             /\ intervals' = IF gameIntervalRef # 0
                             THEN clearInterval(intervals, gameIntervalRef)
                             ELSE intervals
             /\ gameIntervalRef' = 0
             /\ nBack' = nBack + change
             /\ feedbackMsg' = SessionFeedback(timedOut, autoProgress, totalTurns,
                                               change, feedbackMsg)
             /\ storedHistory' = IF timedOut
                                 THEN saveHistory(storedHistory, accuracy,
                                                  levelPlayed, scoreRef)
                                 ELSE storedHistory
             /\ UNCHANGED <<configVars, score, timeLeftSeconds, autoProgress,
                            currentRule, isSwapped, historyRef, scoreRef,
                            turnTimerRef, blockTurnCount, blockMistakes,
                            totalMistakes, totalTurns, hasResponded,
                            perspectiveMapping, lastStroopText>>

(***************************************************************************)
(* The timeout effect (lines 636-644), run after a render that changed     *)
(* timeLeftSeconds, isPlaying or useTimer.                                 *)
(***************************************************************************)
\* an effect that ends the session as soon as the time is zero
TimeoutEffectEager ==
    /\ effectDue
    /\ IF isPlaying /\ timeLeftSeconds <= 0
       THEN endGame(FALSE) /\ Rerender
       ELSE /\ effectDue' = FALSE
            /\ UNCHANGED <<configVars, stateVars, refVars, turnTimers, intervals,
                           storedHistory, keyEnv>>

TimeoutEffect ==
    /\ effectDue
    /\ IF isPlaying /\ useTimer /\ timeLeftSeconds <= 0 /\ gameIntervalRef # 0
       THEN endGame(TRUE) /\ nBack' \in LevelsExplored /\ Rerender
       ELSE /\ effectDue' = FALSE
            /\ UNCHANGED <<configVars, stateVars, refVars, turnTimers, intervals,
                           storedHistory, keyEnv>>

(***************************************************************************)
(* The HUD controls (lines 884-892): the n-back buttons are disabled while *)
(* auto-progress is on.                                                    *)
(***************************************************************************)
NBackMinus ==
    /\ ~effectDue
    /\ ~autoProgress
    /\ nBack' = Max(1, nBack - 1)
    /\ UNCHANGED <<configVars, isPlaying, score, timeLeftSeconds, autoProgress,
                   currentRule, isSwapped, feedbackMsg, refVars, turnTimers,
                   intervals, storedHistory>>
    /\ Rerender

NBackPlus ==
    /\ ~effectDue
    /\ ~autoProgress
    /\ nBack < MaxNBack
    /\ nBack' = nBack + 1
    /\ UNCHANGED <<configVars, isPlaying, score, timeLeftSeconds, autoProgress,
                   currentRule, isSwapped, feedbackMsg, refVars, turnTimers,
                   intervals, storedHistory>>
    /\ Rerender

ToggleAutoProgress ==
    /\ ~effectDue
    /\ autoProgress' = ~autoProgress
    /\ UNCHANGED <<configVars, isPlaying, score, timeLeftSeconds, nBack,
                   currentRule, isSwapped, feedbackMsg, refVars, turnTimers,
                   intervals, storedHistory>>
    /\ Rerender

\* flashFeedback's setTimeout(() => setFeedbackMsg(""), 800) (line 426)
ClearFeedback ==
    /\ ~effectDue
    /\ feedbackMsg # ""
    /\ feedbackMsg' = ""
    /\ UNCHANGED <<configVars, isPlaying, score, timeLeftSeconds, nBack,
                   autoProgress, currentRule, isSwapped, refVars, turnTimers,
                   intervals, storedHistory>>
    /\ Rerender

(***************************************************************************)
(* The configuration modal (lines 1009-1155).  It is opened by the Config  *)
(* button, which exists only while no session is running (line 900), and   *)
(* it covers the HUD, so the configuration changes only while idle.        *)
(***************************************************************************)
\* what a configuration handler leaves alone besides the configuration
KeptByConfig ==
    UNCHANGED <<stateVars, refVars, turnTimers, intervals, storedHistory>>

\* activeRules.filter(r => r !== rule)
Without(rules, rule) ==
    LET Keep(r) == r # rule IN SelectSeq(rules, Keep)

\* a toggle that lets the last rule be removed
toggleRuleAllowEmpty(rule) ==
    /\ ~effectDue
    /\ ~isPlaying
    /\ IF perspectiveMode /\ perspectiveType = "spatial"
            /\ rule \in {"shape", "size"}
       THEN UNCHANGED activeRules
       ELSE activeRules' = IF InSeq(rule, activeRules)
                           THEN Without(activeRules, rule)
                           ELSE Append(activeRules, rule)
    /\ UNCHANGED <<perspectiveMode, perspectiveType, spatialType,
                   spatialMatchMode, distractorsEnabled, controlSwapEnabled,
                   useTimer, gameDurationSeconds>>
    /\ KeptByConfig
    /\ Rerender

\* toggleRule (lines 710-718)
toggleRule(rule) ==
    /\ ~effectDue
    /\ ~isPlaying
    /\ IF perspectiveMode /\ perspectiveType = "spatial"
            /\ rule \in {"shape", "size"}
       THEN UNCHANGED activeRules
       ELSE LET newRules == IF InSeq(rule, activeRules)
                            THEN Without(activeRules, rule)
                            ELSE Append(activeRules, rule)
            IN  activeRules' = IF Len(newRules) = 0
                               THEN (IF Len(activeRules) > 0 THEN activeRules
                                     ELSE <<"color">>)
                               ELSE newRules
    /\ UNCHANGED <<perspectiveMode, perspectiveType, spatialType,
                   spatialMatchMode, distractorsEnabled, controlSwapEnabled,
                   useTimer, gameDurationSeconds>>
    /\ KeptByConfig
    /\ Rerender

\* the checkboxes of the attributes (line 1057)
ToggleRules(Rules) == \E rule \in Rules : toggleRule(rule)

\* Enable Perspective (line 1093)
SetPerspectiveMode ==
    /\ ~effectDue
    /\ ~isPlaying
    /\ perspectiveMode' = ~perspectiveMode
    /\ UNCHANGED <<activeRules, perspectiveType, spatialType, spatialMatchMode,
                   distractorsEnabled, controlSwapEnabled, useTimer,
                   gameDurationSeconds>>
    /\ KeptByConfig
    /\ Rerender

\* the Symbolic and Spatial buttons (lines 1102-1111)
SetPerspectiveType(Types) ==
    /\ ~effectDue
    /\ ~isPlaying
    /\ perspectiveMode
    /\ \E type \in Types :
        /\ perspectiveType' = type
        /\ spatialMatchMode' = IF type = "spatial" THEN "view"
                               ELSE spatialMatchMode
    /\ UNCHANGED <<activeRules, perspectiveMode, spatialType,
                   distractorsEnabled, controlSwapEnabled, useTimer,
                   gameDurationSeconds>>
    /\ KeptByConfig
    /\ Rerender

\* Control Swap (line 1075)
SetControlSwapEnabled ==
    /\ ~effectDue
    /\ ~isPlaying
    /\ controlSwapEnabled' = ~controlSwapEnabled
    /\ UNCHANGED <<activeRules, perspectiveMode, perspectiveType, spatialType,
                   spatialMatchMode, distractorsEnabled, useTimer,
                   gameDurationSeconds>>
    /\ KeptByConfig
    /\ Rerender

\* Enable Timer (line 1020)
SetUseTimer ==
    /\ ~effectDue
    /\ ~isPlaying
    /\ useTimer' = ~useTimer
    /\ UNCHANGED <<activeRules, perspectiveMode, perspectiveType, spatialType,
                   spatialMatchMode, distractorsEnabled, controlSwapEnabled,
                   gameDurationSeconds>>
    /\ KeptByConfig
    /\ Rerender

\* the seconds of the duration (line 1040), shown while the timer is enabled
SetDurationSeconds(Seconds) ==
    /\ ~effectDue
    /\ ~isPlaying
    /\ useTimer
    /\ \E seconds \in Seconds :
        gameDurationSeconds' = Floor(gameDurationSeconds, 60) * 60 + seconds
    /\ UNCHANGED <<activeRules, perspectiveMode, perspectiveType, spatialType,
                   spatialMatchMode, distractorsEnabled, controlSwapEnabled,
                   useTimer>>
    /\ KeptByConfig
    /\ Rerender

(***************************************************************************)
(* What the specifications draw from.                                      *)
(***************************************************************************)
\* persisted settings found by loadSettings
Saved(rules, mode, type, match, timer, duration) ==
    [activeRules |-> rules, perspectiveMode |-> mode, perspectiveType |-> type,
     spatialType |-> "rotation", spatialMatchMode |-> match,
     distractorsEnabled |-> FALSE, controlSwapEnabled |-> FALSE,
     useTimer |-> timer, gameDurationSeconds |-> duration]

\* outcomes of the Math.random() calls of one advance
Draws(colors, backs, positions, mes, swaps, rules) ==
    {r \in [color : colors, back : backs, net : {<<1, 1, 1, 1, 1, 1>>},
            shape : {1}, cut : {TRUE}, size : {2}, position : positions,
            stroop1 : {1}, stroop2 : {2}, ink : {1}, me : mes, swap : swaps,
            rule : rules] : BackDrawsEnd(r.back, r.color)}

Cycle == <<2, 3, 1>>

ShuffleDraws ==
    {[color |-> <<Cycle>>, shape |-> <<Cycle>>, size |-> <<Cycle>>,
      position |-> <<Cycle>>]}

(***************************************************************************)
(* Spec: short untimed sessions of the default game (rule color, no        *)
(* perspective), with every control of the HUD.                            *)
(***************************************************************************)
SavedSettings == {Saved(<<"color">>, FALSE, "symbolic", "view", FALSE, 60)}

Rnd == Draws({1, 2}, {<<2>>, <<1>>}, {2}, {TRUE}, {FALSE}, {1})

ReactionTimes == {0, 1100, 2300}

Init == \E saved \in SavedSettings : InitWith(saved)

Next ==
    \/ startGame(Rnd, ShuffleDraws)
    \/ stopGame
    \/ TurnTimerFires(Rnd, MaxTurns)
    \/ ClickSide(PhysicalSides, ReactionTimes)
    \/ KeySide(PhysicalSides, ReactionTimes)
    \/ TimeoutEffect
    \/ NBackMinus
    \/ NBackPlus
    \/ ToggleAutoProgress
    \/ ClearFeedback

Spec == Init /\ [][Next]_vars

(***************************************************************************)
(* SpecFair: Spec with the scheduling of the browser: a pending timeout    *)
(* eventually fires and an effect that is due eventually runs.             *)
(***************************************************************************)
SpecFair ==
    /\ Spec
    /\ WF_vars(TurnTimerFires(Rnd, MaxTurns))
    /\ WF_vars(TimeoutEffect)

(***************************************************************************)
(* SpecPersp: very short sessions under each perspective configuration,    *)
(* with stimuli that differ in colour, back colour, position and observer. *)
(***************************************************************************)
SavedPersp ==
    {Saved(<<"color">>, FALSE, "symbolic", "view", FALSE, 60),
     Saved(<<"color">>, TRUE, "symbolic", "view", FALSE, 60),
     Saved(<<"color", "position">>, TRUE, "spatial", "view", FALSE, 60),
     Saved(<<"color">>, TRUE, "spatial", "object", FALSE, 60)}

RndPersp ==
    Draws({1, 2}, {<<2>>, <<1>>, <<3>>}, {1, 3}, BOOLEAN, {FALSE}, {1, 2})

PerspTimes == {0}

InitPersp == \E saved \in SavedPersp : InitWith(saved)

NextPersp ==
    \/ startGame(RndPersp, ShuffleDraws)
    \/ stopGame
    \/ TurnTimerFires(RndPersp, MaxPerspTurns)
    \/ ClickSide(PhysicalSides, PerspTimes)
    \/ KeySide(PhysicalSides, PerspTimes)
    \/ TimeoutEffect

SpecPersp == InitPersp /\ [][NextPersp]_vars

(***************************************************************************)
(* SpecBlock: untimed sessions long enough to end a block of BLOCK_SIZE    *)
(* trials; every stimulus has the same colour, so "match" is the correct   *)
(* answer of every trial.                                                  *)
(***************************************************************************)
RndBlock == Draws({1}, {<<2>>}, {2}, {TRUE}, {FALSE}, {1})

BlockTimes == {2300}

NextBlock ==
    \/ startGame(RndBlock, ShuffleDraws)
    \/ stopGame
    \/ TurnTimerFires(RndBlock, MaxBlockTurns)
    \/ ClickSide({"left"}, BlockTimes)
    \/ TimeoutEffect
    \/ NBackMinus
    \/ NBackPlus
    \/ ToggleAutoProgress

SpecBlock == Init /\ [][NextBlock]_vars

(***************************************************************************)
(* SpecTimed: short timed sessions, with the countdown and the timeout.    *)
(***************************************************************************)
SavedTimed == {Saved(<<"color">>, FALSE, "symbolic", "view", TRUE, 2)}

InitTimed == \E saved \in SavedTimed : InitWith(saved)

NextTimed ==
    \/ startGame(RndBlock, ShuffleDraws)
    \/ stopGame
    \/ TurnTimerFires(RndBlock, MaxTimedTurns)
    \/ ClickSide(PhysicalSides, BlockTimes)
    \/ IntervalTick
    \/ TimeoutEffect
    \/ NBackPlus
    \/ ToggleAutoProgress

SpecTimed == InitTimed /\ [][NextTimed]_vars

(***************************************************************************)
(* SpecDuration: sessions with the timer switched on and off and a         *)
(* duration of 0 or 1 seconds chosen between sessions.                     *)
(***************************************************************************)
SavedDuration == {Saved(<<"color">>, FALSE, "symbolic", "view", TRUE, 1)}

DurationSeconds == {0, 1}

InitDuration == \E saved \in SavedDuration : InitWith(saved)

NextDuration ==
    \/ startGame(RndBlock, ShuffleDraws)
    \/ stopGame
    \/ TurnTimerFires(RndBlock, MaxTimedTurns)
    \/ IntervalTick
    \/ TimeoutEffect
    \/ SetUseTimer
    \/ SetDurationSeconds(DurationSeconds)

SpecDuration == InitDuration /\ [][NextDuration]_vars

(***************************************************************************)
(* SpecGen: two-trial untimed sessions under configurations that differ in *)
(* the active rules, the visual noise and the perspective, with draws that *)
(* vary every attribute of the stimulus.                                   *)
(***************************************************************************)
SavedGen ==
    {Saved(<<"color">>, FALSE, "symbolic", "view", FALSE, 60),
     [Saved(<<"color">>, FALSE, "symbolic", "view", FALSE, 60)
         EXCEPT !.distractorsEnabled = TRUE],
     Saved(<<"shape", "size", "position">>, FALSE, "symbolic", "view", FALSE, 60),
     [Saved(<<"color", "position">>, TRUE, "symbolic", "view", FALSE, 60)
         EXCEPT !.distractorsEnabled = TRUE],
     Saved(<<"color", "position">>, TRUE, "spatial", "view", FALSE, 60),
     [Saved(<<"color">>, TRUE, "spatial", "object", FALSE, 60)
         EXCEPT !.distractorsEnabled = TRUE],
     [Saved(<<"color">>, TRUE, "spatial", "view", FALSE, 60)
         EXCEPT !.distractorsEnabled = TRUE, !.spatialType = "cutout"]}

\* one advance: red in front of blue, every other draw the first of its list
\* except size and position, which are the second
PlainDraw ==
    [color |-> 1, back |-> <<2>>, net |-> <<1, 1, 1, 1, 1, 1>>, shape |-> 1,
     cut |-> TRUE, size |-> 2, position |-> 2, stroop1 |-> 1, stroop2 |-> 2,
     ink |-> 1, me |-> TRUE, swap |-> FALSE, rule |-> 1]

\* the advances SpecGen draws: each family varies a few draws of PlainDraw
RndGen ==
    {r \in {[PlainDraw EXCEPT !.color = c, !.back = b, !.me = m] :
                c \in {1, 2}, m \in BOOLEAN,
                b \in {<<1>>, <<2>>, <<3>>, <<1, 2>>, <<2, 2, 1>>}} :
        BackDrawsEnd(r.back, r.color)}
    \cup {[PlainDraw EXCEPT !.shape = h, !.cut = k, !.size = z] :
                h \in {1, 3}, k \in BOOLEAN, z \in {2, 3}}
    \cup {[PlainDraw EXCEPT !.position = q, !.me = m] :
                q \in {1, 2, 3}, m \in BOOLEAN}
    \cup {[PlainDraw EXCEPT !.stroop1 = f, !.stroop2 = g] :
                f \in {1, 2}, g \in {1, 2}}
    \cup {[PlainDraw EXCEPT !.net = <<2, 3, 1, 2, 3, 1>>, !.ink = 2],
          [PlainDraw EXCEPT !.rule = 2]}

\* outcomes of the shuffles of one scramble: the first shuffle may leave a
\* value in its place and is then repeated
ShufflesGen ==
    {[color |-> <<Cycle>>, shape |-> <<Cycle>>, size |-> <<Cycle>>,
      position |-> <<Cycle>>],
     [color |-> <<<<1, 2, 3>>, <<3, 1, 2>>>>, shape |-> <<<<1, 3, 2>>, Cycle>>,
      size |-> <<<<3, 1, 2>>>>, position |-> <<<<3, 2, 1>>, <<3, 1, 2>>>>]}

InitGen == \E saved \in SavedGen : InitWith(saved)

NextGen ==
    \/ startGame(RndGen, ShufflesGen)
    \/ stopGame
    \/ TurnTimerFires(RndGen, MaxPerspTurns)
    \/ TimeoutEffect

SpecGen == InitGen /\ [][NextGen]_vars

(***************************************************************************)
(* SpecConfig: the rules and the perspective are changed in the            *)
(* configuration modal between two-trial untimed sessions.                 *)
(***************************************************************************)
SavedConfig == {Saved(<<"color">>, FALSE, "symbolic", "view", FALSE, 60)}

RndConfig == {[PlainDraw EXCEPT !.rule = i] : i \in 1..3}

RulesToggled == {"color", "shape", "position"}

PerspectiveTypes == {"symbolic", "spatial"}

InitConfig == \E saved \in SavedConfig : InitWith(saved)

NextConfig ==
    \/ startGame(RndConfig, ShufflesGen)
    \/ stopGame
    \/ TurnTimerFires(RndConfig, MaxPerspTurns)
    \/ TimeoutEffect
    \/ ToggleRules(RulesToggled)
    \/ SetPerspectiveMode
    \/ SetPerspectiveType(PerspectiveTypes)

SpecConfig == InitConfig /\ [][NextConfig]_vars

(***************************************************************************)
(* SpecSwap: two-trial untimed sessions with control swap, which is        *)
(* switched off and on in the configuration modal between sessions.        *)
(***************************************************************************)
SavedSwap ==
    {[Saved(<<"color">>, FALSE, "symbolic", "view", FALSE, 60)
         EXCEPT !.controlSwapEnabled = TRUE]}

RndSwap ==
    {r \in {[PlainDraw EXCEPT !.color = c, !.back = b, !.swap = w] :
                c \in {1, 2}, b \in {<<1>>, <<2>>}, w \in BOOLEAN} :
        BackDrawsEnd(r.back, r.color)}

InitSwap == \E saved \in SavedSwap : InitWith(saved)

NextSwap ==
    \/ startGame(RndSwap, ShuffleDraws)
    \/ stopGame
    \/ TurnTimerFires(RndSwap, MaxPerspTurns)
    \/ ClickSide(PhysicalSides, PerspTimes)
    \/ KeySide(PhysicalSides, PerspTimes)
    \/ TimeoutEffect
    \/ SetControlSwapEnabled

SpecSwap == InitSwap /\ [][NextSwap]_vars

(***************************************************************************)
(* SpecUnattended: SpecDuration, whose sessions get no input but Stop,     *)
(* with the scheduling of the browser: a pending timeout fires, a running  *)
(* interval ticks and an effect that is due runs.                          *)
(***************************************************************************)
SpecUnattended ==
    /\ SpecDuration
    /\ WF_vars(TurnTimerFires(RndBlock, MaxTimedTurns))
    /\ WF_vars(IntervalTick)
    /\ WF_vars(TimeoutEffect)

(***************************************************************************)
(* loadSettings (lines 666-695), run once by the mount effect (line 721).  *)
(* stored holds what localStorage.getItem returns for each key: a string,  *)
(* or Absent for null.                                                     *)
(***************************************************************************)
Absent == "null"

\* if (saved): null and the empty string are falsy
Truthy(item) == item # Absent /\ item # ""

\* parseInt of a string that does not start with a number is NaN, which is
\* represented by a number that no duration and no remaining time takes
NaN == 0 - 99

parseInt(item) ==
    CASE item = "0" -> 0
      [] item = "2" -> 2
      [] item = "45" -> 45
      [] OTHER -> NaN

\* JSON.parse of the texts stored under the rules key: the value, or a
\* SyntaxError
JSONparse(text) ==
    CASE text = "[\"color\",\"position\"]" ->
            [thrown |-> FALSE, isArray |-> TRUE, value |-> <<"color", "position">>]
      [] text = "[]" -> [thrown |-> FALSE, isArray |-> TRUE, value |-> <<>>]
      [] text = "{}" -> [thrown |-> FALSE, isArray |-> FALSE, value |-> <<>>]
      [] OTHER -> [thrown |-> TRUE, isArray |-> FALSE, value |-> <<>>]

loadSettings(stored) ==
    LET parsed == JSONparse(stored.rules)
    IN  [activeRules |->
            IF Truthy(stored.rules) /\ ~parsed.thrown /\ parsed.isArray
                 /\ Len(parsed.value) > 0
            THEN parsed.value ELSE <<"color">>,
         perspectiveMode |->
            IF Truthy(stored.perspective) THEN stored.perspective = "true"
            ELSE FALSE,
         perspectiveType |->
            IF Truthy(stored.persp_type) THEN stored.persp_type ELSE "symbolic",
         spatialType |->
            IF Truthy(stored.spatial_type) THEN stored.spatial_type
            ELSE "rotation",
         spatialMatchMode |->
            IF Truthy(stored.match_mode) THEN stored.match_mode ELSE "view",
         distractorsEnabled |->
            IF Truthy(stored.distractors) THEN stored.distractors = "true"
            ELSE FALSE,
         controlSwapEnabled |->
            IF Truthy(stored.swap) THEN stored.swap = "true" ELSE FALSE,
         useTimer |->
            IF Truthy(stored.timer_enabled) THEN stored.timer_enabled = "true"
            ELSE TRUE,
         gameDurationSeconds |->
            IF Truthy(stored.duration) THEN parseInt(stored.duration) ELSE 60]

(***************************************************************************)
(* SpecLoad: the component is mounted on a localStorage whose items are    *)
(* missing, valid or malformed, and short sessions are played.  The items  *)
(* with a malformed duration disable the timer, so that no countdown reads *)
(* the duration.                                                           *)
(***************************************************************************)
EmptyStorage ==
    [rules |-> Absent, perspective |-> Absent, persp_type |-> Absent,
     spatial_type |-> Absent, match_mode |-> Absent, duration |-> Absent,
     distractors |-> Absent, swap |-> Absent, timer_enabled |-> Absent]

StoredItems ==
    {[EmptyStorage EXCEPT !.timer_enabled = "false", !.rules = text] :
        text \in {Absent, "[\"color\",\"position\"]", "[]", "{}", "[\"color\""}}
    \cup {[EmptyStorage EXCEPT !.timer_enabled = "false", !.perspective = mode,
                               !.persp_type = type, !.match_mode = match] :
            mode \in {"true", "false", "yes"},
            type \in {Absent, "", "spatial", "sideways"},
            match \in {Absent, "object"}}
    \cup {[EmptyStorage EXCEPT !.timer_enabled = "false", !.duration = text] :
            text \in {Absent, "", "45", "abc"}}
    \cup {[EmptyStorage EXCEPT !.duration = "2"]}

InitLoad == \E stored \in StoredItems : InitWith(loadSettings(stored))

NextLoad ==
    \/ startGame(RndBlock, ShuffleDraws)
    \/ stopGame
    \/ TurnTimerFires(RndBlock, MaxTimedTurns)
    \/ IntervalTick
    \/ TimeoutEffect

SpecLoad == InitLoad /\ [][NextLoad]_vars

(***************************************************************************)
(* Properties.  A step is recognised as a response by the action that      *)
(* takes it, as an advance by the trial counter.                           *)
(***************************************************************************)
AllTimes == ReactionTimes \cup PerspTimes \cup BlockTimes

\* the step is handleInput(action) of the tap zones or of the key listener
RespondStepAt(action, reactionTime) ==
    \E env \in {LiveEnv, keyEnv} : handleInput(action, env, reactionTime)

RespondStep(action) ==
    \E reactionTime \in AllTimes : RespondStepAt(action, reactionTime)

\* a response now would be accepted
ResponseAccepted == isPlaying /\ Len(historyRef) > nBack /\ ~hasResponded

ScoredCorrect == score' > score /\ totalMistakes' = totalMistakes

ScoredIncorrect == score' = score - 5 /\ totalMistakes' = totalMistakes + 1

\* the current stimulus and the one n-back positions earlier
LastStim == historyRef[Len(historyRef)]
BackStim == historyRef[Len(historyRef) - nBack]

SameJudgedValue ==
    getTransformedValue(LastStim, currentRule, LiveEnv, perspectiveMapping)
        = getTransformedValue(BackStim, currentRule, LiveEnv, perspectiveMapping)

Judged(action) ==
    \/ action = "match" /\ SameJudgedValue
    \/ action = "non_match" /\ ~SameJudgedValue

\* the step is a timer-driven advance, the initial advance of a session
TimerAdvance == isPlaying /\ isPlaying' /\ totalTurns' = totalTurns + 1
InitialAdvance == ~isPlaying /\ isPlaying'

\* C1: an accepted respond(action) is scored correct iff action = match and
\* the transformed values of the current stimulus and of the stimulus n-back
\* positions earlier are equal, or action = non_match and they differ; with
\* perspective off, rule color and n-back 1, respond(match) is correct iff the
\* last two stimuli have the same color.
C1_ResponseJudgedByTransform ==
    [][\A action \in UserActions :
        (ResponseAccepted /\ RespondStep(action)) =>
            /\ ScoredCorrect \/ ScoredIncorrect
            /\ ScoredCorrect <=> Judged(action)
            /\ (~perspectiveMode /\ currentRule = "color" /\ nBack = 1
                    /\ action = "match")
                => (ScoredCorrect <=> LastStim.color = BackStim.color)]_vars

\* a match response scored correct on two stimuli of different colour, which
\* the perspective transform maps to the same value
C1_Witness ==
    /\ isPlaying /\ hasResponded /\ perspectiveMode
    /\ Len(historyRef) > nBack /\ nBack >= 1
    /\ currentRule = "color"
    /\ LastStim.color # BackStim.color
    /\ SameJudgedValue
    /\ feedbackMsg = "FAST! +10"

\* C2: in every reachable state the n-back level is at least 1.
C2_LevelAtLeastOne == nBack >= 1

\* C3: a second respond in the same trial window changes neither score, total
\* mistakes, block mistakes nor the pending advance timer.
C3_SecondResponseIgnored ==
    [][\A action \in UserActions :
        (isPlaying /\ hasResponded /\ RespondStep(action)) =>
            UNCHANGED <<score, scoreRef, totalMistakes, blockMistakes,
                        turnTimers, turnTimerRef>>]_vars

\* a trial that already has its response, the advance rescheduled by it
C3_Witness ==
    /\ isPlaying /\ hasResponded /\ Len(historyRef) > nBack
    /\ \E t \in turnTimers : t.delay = RESPONSE_DELAY_MS
    /\ score # 0

\* C4: a respond while the session is not running, or while history length
\* <= n-back, leaves score, both mistake counters, the responded flag, the
\* history and the pending advance timer unchanged.
C4_EarlyResponseIgnored ==
    [][\A action \in UserActions :
        ((~isPlaying \/ Len(historyRef) <= nBack) /\ RespondStep(action)) =>
            UNCHANGED <<score, scoreRef, totalMistakes, blockMistakes,
                        hasResponded, historyRef, turnTimers, turnTimerRef>>]_vars

\* a running session whose history is not longer than n-back, with an advance
\* pending: a key or tap now is ignored
C4_Witness ==
    /\ isPlaying /\ ~hasResponded
    /\ Len(historyRef) >= 1 /\ Len(historyRef) <= nBack
    /\ turnTimers # {}

\* max(0, min(10, floor((2000 - reactionTime) / 150)))
ClampedBonus(reactionTime) ==
    LET raw == (2000 - reactionTime) \div 150
    IN  IF raw < 0 THEN 0 ELSE IF raw > 10 THEN 10 ELSE raw

\* reaction times the bonus of a step is compared with
BonusGrid == {50 * k : k \in 0..70}

\* C5: a correct response adds exactly 10 + 5 * nBack + bonus to the score,
\* bonus = max(0, min(10, floor((2000 - reactionTime) / 150))); the bonus is
\* in 0..10, non-increasing in the reaction time and 0 from 2000 ms on; the
\* mistake counters are unchanged.
C5_CorrectResponsePoints ==
    [][\A action \in UserActions, reactionTime \in AllTimes :
        (ResponseAccepted /\ RespondStepAt(action, reactionTime)
            /\ Judged(action)) =>
            LET bonus == score' - score - 10 - 5 * nBack
            IN  /\ bonus = ClampedBonus(reactionTime)
                /\ bonus \in 0..10
                /\ reactionTime >= 2000 => bonus = 0
                /\ \A other \in BonusGrid :
                    /\ other <= reactionTime => speedBonus(other) >= bonus
                    /\ other >= reactionTime => speedBonus(other) <= bonus
                /\ scoreRef' = scoreRef + 10 + 5 * nBack + bonus
                /\ UNCHANGED <<totalMistakes, blockMistakes>>]_vars

\* a first correct response at level 1 after 1100 ms: 10 + 5 + 6 points
C5_Witness ==
    /\ isPlaying /\ hasResponded /\ nBack = 1
    /\ feedbackMsg = "FAST! +6"
    /\ score = 21 /\ totalMistakes = 0

\* C6 (as amended): a correct response at reaction time 0 ms earns speed bonus
\* 10 and 20 + 5 * nBack points in all, which is 25 at n-back = 1.
C6_InstantResponsePoints ==
    [][\A action \in UserActions :
        (ResponseAccepted /\ RespondStepAt(action, 0) /\ Judged(action)) =>
            /\ score' - score - 10 - 5 * nBack = 10
            /\ score' - score = 20 + 5 * nBack
            /\ nBack = 1 => score' - score = 25]_vars

\* C6 as stated: ... and at n-back = 1 its total points are 35.
C6_AsStated ==
    [][\A action \in UserActions :
        (ResponseAccepted /\ RespondStepAt(action, 0) /\ Judged(action)) =>
            /\ score' - score - 10 - 5 * nBack = 10
            /\ nBack = 1 => score' - score = 35]_vars

\* a first correct response at level 1 after 0 ms: 25 points
C6_Witness ==
    /\ isPlaying /\ hasResponded /\ nBack = 1
    /\ feedbackMsg = "FAST! +10"
    /\ score = 25 /\ totalMistakes = 0

\* C7: an accepted incorrect response changes the score by exactly -5 and
\* increments the total and the block mistake counter by exactly 1, at every
\* level and reaction time; the score may become negative.
C7_IncorrectResponsePenalty ==
    [][\A action \in UserActions :
        (ResponseAccepted /\ RespondStep(action) /\ ~Judged(action)) =>
            /\ score' = score - 5
            /\ scoreRef' = scoreRef - 5
            /\ totalMistakes' = totalMistakes + 1
            /\ blockMistakes' = blockMistakes + 1]_vars

\* an incorrect response at level 2 that leaves the score negative
C7_Witness ==
    /\ isPlaying /\ hasResponded /\ nBack = 2
    /\ feedbackMsg \in {"Missed!", "Incorrect!"}
    /\ score < 0 /\ totalMistakes >= 1 /\ blockMistakes >= 1

\* the miss penalty has been applied by the step
MissApplied ==
    IF InitialAdvance
    THEN totalMistakes' # 0 \/ scoreRef' # 0
    ELSE totalMistakes' = totalMistakes + 1 /\ scoreRef' = scoreRef - 5

\* C8: at an advance a miss is applied iff the advance is not the initial one,
\* history length > n-back before the new stimulus is appended, and no
\* response was recorded for the trial that ends.
C8_MissIffLateAndUnanswered ==
    [][(TimerAdvance \/ InitialAdvance) =>
        (MissApplied <=>
            (~InitialAdvance /\ Len(historyRef) > nBack /\ ~hasResponded))]_vars

\* the block that ends with this advance: its mistakes, the miss of its last
\* trial included
BlockEnds == TimerAdvance /\ blockTurnCount = BLOCK_SIZE
BlockMistakesAtEnd ==
    blockMistakes + (IF Len(historyRef) > nBack /\ ~hasResponded THEN 1 ELSE 0)

\* C9: with auto-progress on and the timer off, a block of 20 trials that
\* ends with accuracy >= 80% increments the level by exactly 1 and resets
\* both block counters before the next trial is counted.
C9_BlockLevelUp ==
    [][(BlockEnds /\ autoProgress /\ ~useTimer
            /\ AccuracyAtLeast80(BLOCK_SIZE, BlockMistakesAtEnd)) =>
        /\ nBack' = nBack + 1
        /\ blockTurnCount' = 1
        /\ blockMistakes' = 0]_vars

\* C10: with auto-progress on and the timer off, a block of 20 trials that
\* ends with accuracy < 50% decrements the level if it is > 1 and leaves it
\* at 1 otherwise; accuracy in [50%, 80%) leaves it unchanged; both block
\* counters are reset.
C10_BlockLevelDownOrKeep ==
    [][(BlockEnds /\ autoProgress /\ ~useTimer
            /\ ~AccuracyAtLeast80(BLOCK_SIZE, BlockMistakesAtEnd)) =>
        /\ nBack' = IF AccuracyBelow50(BLOCK_SIZE, BlockMistakesAtEnd) /\ nBack > 1
                    THEN nBack - 1 ELSE nBack
        /\ blockTurnCount' = 1
        /\ blockMistakes' = 0]_vars

\* C11: when auto-progress is off, or the timer is on, no advance changes the
\* n-back level; during play the level changes only through the manual
\* controls with auto-progress off, which never take it below 1.
C11_AdvanceKeepsLevel ==
    [][/\ (TimerAdvance /\ (~autoProgress \/ useTimer)) => nBack' = nBack
       /\ (isPlaying /\ isPlaying' /\ (~autoProgress \/ useTimer)
                /\ nBack' # nBack) =>
            (~autoProgress /\ ~TimerAdvance /\ nBack' >= 1)]_vars

\* the timeout effect ends the session, the Stop button ends it
TimeoutEnd == effectDue /\ isPlaying /\ ~isPlaying'
StopStep == ~effectDue /\ isPlaying /\ ~isPlaying'

LastRecord == storedHistory[Len(storedHistory)]

\* C12: at a timeout with auto-progress on and at least one trial, the
\* accuracy (total trials - total mistakes) / total trials decides the level:
\* >= 80% increments it, < 50% with level > 1 decrements it, otherwise it is
\* unchanged; with auto-progress off the timeout leaves it unchanged.
C12_TimeoutLevelChange ==
    [][TimeoutEnd =>
        LET right == totalTurns - totalMistakes
        IN  IF autoProgress /\ totalTurns >= 1
            THEN /\ 5 * right >= 4 * totalTurns => nBack' = nBack + 1
                 /\ (2 * right < totalTurns /\ nBack > 1) => nBack' = nBack - 1
                 /\ (5 * right < 4 * totalTurns
                        /\ ~(2 * right < totalTurns /\ nBack > 1))
                    => nBack' = nBack
            ELSE nBack' = nBack]_vars

\* a session played at level 2 has timed out below 50% and lowered the level
C12_Witness ==
    /\ ~isPlaying /\ autoProgress /\ feedbackMsg = "Level Down"
    /\ Len(storedHistory) >= 1 /\ LastRecord.maxNBack = 2
    /\ nBack = 1
    /\ 2 * (totalTurns - totalMistakes) < totalTurns

\* C13: the record appended at timeout holds the cumulative score at that
\* moment, the accuracy (total trials - total mistakes) / total trials * 100
\* (0 if no trials) and the level as it was during play, before the
\* end-of-session adjustment.
C13_RecordContents ==
    [][TimeoutEnd =>
        LET record == storedHistory'[Len(storedHistory')]
        IN  /\ record.score = scoreRef /\ record.score = score
            /\ record.accuracy =
                IF totalTurns = 0 THEN <<0, 1>>
                ELSE <<(totalTurns - totalMistakes) * 100, totalTurns>>
            /\ record.maxNBack = nBack]_vars

\* a timeout has raised the level: the record keeps the level played
C13_Witness ==
    /\ ~isPlaying /\ feedbackMsg = "LEVEL UP!"
    /\ Len(storedHistory) >= 1
    /\ LastRecord.maxNBack + 1 = nBack
    /\ LastRecord.score = scoreRef /\ scoreRef > 0
    /\ LastRecord.accuracy = <<(totalTurns - totalMistakes) * 100, totalTurns>>

\* C14: a manual stop never changes the persisted history collection.
C14_StopKeepsHistory ==
    [][StopStep => storedHistory' = storedHistory]_vars

\* stopped while the countdown was running, after trials with a mistake
C14_Witness ==
    /\ ~isPlaying /\ feedbackMsg = "Stopped"
    /\ useTimer /\ timeLeftSeconds = 1 /\ timeLeftSeconds < gameDurationSeconds
    /\ totalTurns >= 2 /\ totalMistakes >= 1
    /\ storedHistory = <<>>

\* C15: a session that ends by timeout appends exactly one record to the end
\* of the persisted history and leaves the earlier records unchanged; no
\* other step, a re-evaluation of the timeout condition included, changes
\* the collection.
C15_OneRecordPerTimeout ==
    [][/\ TimeoutEnd =>
            /\ Len(storedHistory') = Len(storedHistory) + 1
            /\ SubSeq(storedHistory', 1, Len(storedHistory)) = storedHistory
       /\ (effectDue /\ isPlaying /\ useTimer /\ timeLeftSeconds <= 0)
            => TimeoutEnd
       /\ ~TimeoutEnd => storedHistory' = storedHistory]_vars

\* a second session has timed out: two records, the timeout effect has run
\* again after the end and found the session idle
C15_Witness ==
    /\ ~isPlaying /\ ~effectDue
    /\ Len(storedHistory) = 2
    /\ timeLeftSeconds <= 0
    /\ storedHistory[1] # storedHistory[2]

\* C16: a stop leaves the session idle with the scheduled advance and the
\* countdown cancelled; while the session stays idle there is no advance, no
\* countdown tick, no miss penalty and no change to score, counters or
\* history.
C16_IdleAfterStop ==
    [][/\ StopStep => (turnTimers' = {} /\ intervals' = {})
       /\ (~isPlaying /\ ~isPlaying') =>
            UNCHANGED <<score, scoreRef, totalTurns, totalMistakes,
                        blockTurnCount, blockMistakes, historyRef,
                        timeLeftSeconds, turnTimers, intervals>>]_vars

\* stopped right after a response, with the countdown running and the
\* advance of the response pending until then
C16_Witness ==
    /\ ~isPlaying /\ ~effectDue /\ feedbackMsg = "Stopped"
    /\ hasResponded /\ score # 0
    /\ useTimer /\ timeLeftSeconds = 1
    /\ turnTimers = {} /\ intervals = {}

\* C17: at every moment at most one advance callback is pending, the one
\* turnTimerRef holds.
C17_OnePendingAdvance ==
    /\ Cardinality(turnTimers) <= 1
    /\ \A t \in turnTimers : t.id = turnTimerRef

\* a session started after a stop has advanced: one advance is pending
C17_Witness ==
    /\ isPlaying /\ feedbackMsg = "Stopped" /\ totalTurns >= 2
    /\ Cardinality(turnTimers) = 1
    /\ \E t \in turnTimers : t.delay = INTERVAL_MS /\ t.id = turnTimerRef

\* C18: a start resets score, total trials, total mistakes, block trials and
\* block mistakes, clears the history, leaves no countdown running and sets
\* the remaining time to the configured duration; right after it the history
\* has length 1, total trials is 1, the score is 0, the responded flag is
\* false and no miss has been applied.
C18_StartResets ==
    [][InitialAdvance =>
        /\ score' = 0 /\ scoreRef' = 0
        /\ totalMistakes' = 0 /\ blockMistakes' = 0
        /\ totalTurns' = 1 /\ blockTurnCount' = 1
        /\ Len(historyRef') = 1
        /\ hasResponded' = FALSE
        /\ timeLeftSeconds' = gameDurationSeconds
        /\ intervals' = {} /\ gameIntervalRef' = 0
        /\ Cardinality(turnTimers') = 1]_vars

\* a session started after one that timed out with a score and mistakes
C18_Witness ==
    /\ isPlaying /\ totalTurns = 1 /\ Len(historyRef) = 1
    /\ score = 0 /\ totalMistakes = 0 /\ ~hasResponded
    /\ timeLeftSeconds = gameDurationSeconds
    /\ Len(storedHistory) >= 1
    /\ LastRecord.score # 0
    /\ LastRecord.accuracy[1] < 100 * LastRecord.accuracy[2]

\* the step starts the countdown
CountdownStarted == intervals = {} /\ intervals' # {}

\* C20: in a timed session the countdown is started by the first advance
\* after which history length exceeds n-back and never earlier; it is started
\* at most once per session and at most one countdown is active.
C20_CountdownStartsOnce ==
    [][/\ CountdownStarted =>
            /\ TimerAdvance \/ InitialAdvance
            /\ Len(historyRef') > nBack'
       /\ ((TimerAdvance \/ InitialAdvance) /\ useTimer /\ intervals' = {})
            => Len(historyRef') <= nBack'
       /\ Cardinality(intervals') <= 1
       /\ (intervals # {} /\ intervals' # {}) => intervals' = intervals]_vars

\* C21: a session is finalized by timeout only when it is running, the timer
\* is enabled, the countdown has started and the remaining time has reached
\* zero; never before the countdown has started (a start with duration 0) and
\* never when the timer is disabled.
C21_TimeoutOnlyAfterCountdown ==
    [][(TimeoutEnd \/ Len(storedHistory') > Len(storedHistory)) =>
          /\ isPlaying /\ useTimer /\ timeLeftSeconds <= 0
          /\ gameIntervalRef # 0 /\ gameIntervalRef \in intervals
          /\ Len(historyRef) > 1]_vars

\* a session of duration 0 that was not ended at its start: it was ended by the
\* timeout after the countdown had started and ticked once
C21_Witness ==
    /\ ~isPlaying /\ useTimer /\ gameDurationSeconds = 0
    /\ timeLeftSeconds = 0 - 1
    /\ totalTurns >= 2
    /\ Len(storedHistory) >= 1
    /\ feedbackMsg # "Stopped"

\* the stimuli generated so far in this session
Stimuli == Range(historyRef)

\* C22: every stimulus produced by the generator, under every configuration,
\* has backColor # color and a netColors sequence of exactly 6 colors, the
\* third of which (index 2 from 0) is color and the sixth (index 5) backColor.
C22_BackAndNetColors ==
    \A s \in Stimuli :
        /\ s.backColor # s.color
        /\ s.backColor \in Range(COLORS)
        /\ DOMAIN s.netColors = 1..6
        /\ \A i \in 1..6 : s.netColors[i] \in Range(COLORS)
        /\ s.netColors[3] = s.color
        /\ s.netColors[6] = s.backColor

\* a stimulus whose net was drawn without its colours on the third and sixth
\* face, and a stimulus of another colour before it
C22_Witness ==
    /\ Len(historyRef) = 2
    /\ LastStim.netColors = <<"blue", "green", "red", "blue", "green", "blue">>
    /\ historyRef[1].color = "blue"
    /\ historyRef[1].backColor = "red"

\* C23: for every two consecutive stimuli generated, the Stroop text of the
\* later one differs from the Stroop text of the immediately preceding one.
C23_StroopTextDiffers ==
    \A i \in 2..Len(historyRef) :
        historyRef[i].stroopText # historyRef[i - 1].stroopText

\* the value the running configuration judges stimulus s by under rule
Transformed(s, rule) ==
    getTransformedValue(s, rule, LiveEnv, perspectiveMapping)

Symbolic == perspectiveMode /\ perspectiveType = "symbolic"
Spatial == perspectiveMode /\ perspectiveType = "spatial"

\* C25: the transform of a stimulus is its raw value of the rule when
\* perspective mode is off, and in symbolic mode for observer me; in symbolic
\* mode for observer opposite it is table[rule][raw value], so two
\* opposite-observer stimuli have equal transforms iff their raw values are
\* equal.
C25_SymbolicTransform ==
    \A rule \in Range(ALL_ATTRIBUTES) :
        /\ \A s \in Stimuli :
            /\ ~perspectiveMode => Transformed(s, rule) = s[rule]
            /\ (Symbolic /\ s.observerPos = "me")
                   => Transformed(s, rule) = s[rule]
            /\ (Symbolic /\ s.observerPos = "opposite")
                   => Transformed(s, rule) = perspectiveMapping[rule][s[rule]]
        /\ \A s, t \in Stimuli :
            (Symbolic /\ s.observerPos = "opposite" /\ t.observerPos = "opposite")
                => (Transformed(s, rule) = Transformed(t, rule)
                        <=> s[rule] = t[rule])

\* a symbolic session with two opposite-observer stimuli of different colour,
\* relabeled by a table that was shuffled twice
C25_Witness ==
    /\ isPlaying /\ Symbolic /\ Len(historyRef) = 2
    /\ historyRef[1].observerPos = "opposite"
    /\ historyRef[2].observerPos = "opposite"
    /\ historyRef[1].color = "red" /\ historyRef[2].color = "blue"
    /\ perspectiveMapping.color["red"] = "green"
    /\ Transformed(historyRef[2], "color") = "red"

\* left <-> right, center unchanged
Mirror(position) ==
    CASE position = "left" -> "right"
      [] position = "right" -> "left"
      [] OTHER -> position

\* C26: in spatial mode with rule position, the object strategy gives the raw
\* position for both observers; the view strategy gives the raw position for
\* observer me and the left/right mirror (center unchanged) for observer
\* opposite, and the mirror applied twice gives the original position.
C26_SpatialPosition ==
    \A s \in Stimuli :
        Spatial =>
            /\ spatialMatchMode = "object"
                   => Transformed(s, "position") = s.position
            /\ (spatialMatchMode = "view" /\ s.observerPos = "me")
                   => Transformed(s, "position") = s.position
            /\ (spatialMatchMode = "view" /\ s.observerPos = "opposite")
                   => /\ Transformed(s, "position") = Mirror(s.position)
                      /\ (s.position = "center")
                            = (Transformed(s, "position") = s.position)
                      /\ Transformed([s EXCEPT !.position =
                                        Transformed(s, "position")], "position")
                            = s.position

\* a view-strategy session that showed a left stimulus to the opposite
\* observer and a right stimulus to the player
C26_Witness ==
    /\ isPlaying /\ Spatial /\ spatialMatchMode = "view"
    /\ Len(historyRef) = 2
    /\ historyRef[1].position = "left" /\ historyRef[1].observerPos = "opposite"
    /\ historyRef[2].position = "right" /\ historyRef[2].observerPos = "me"
    /\ Transformed(historyRef[1], "position")
          = Transformed(historyRef[2], "position")

\* C27: in spatial mode with rule color, under the object strategy the
\* transform depends only on the unordered pair {color, backColor}: equal for
\* two stimuli with the same pair whatever the observer and whichever colour
\* is in front, different for different pairs; under the view strategy it is
\* color for observer me and backColor for observer opposite.
C27_SpatialColor ==
    /\ \A s, t \in Stimuli :
        (Spatial /\ spatialMatchMode = "object") =>
            (Transformed(s, "color") = Transformed(t, "color")
                <=> {s.color, s.backColor} = {t.color, t.backColor})
    /\ \A s \in Stimuli :
        (Spatial /\ spatialMatchMode = "view") =>
            Transformed(s, "color") = IF s.observerPos = "me" THEN s.color
                                      ELSE s.backColor

\* an object-strategy session with red in front of blue for the player, then
\* blue in front of red for the opposite observer
C27_Witness ==
    /\ isPlaying /\ Spatial /\ spatialMatchMode = "object"
    /\ Len(historyRef) = 2
    /\ historyRef[1].color = "red" /\ historyRef[1].backColor = "blue"
    /\ historyRef[1].observerPos = "me"
    /\ historyRef[2].color = "blue" /\ historyRef[2].backColor = "red"
    /\ historyRef[2].observerPos = "opposite"
    /\ Transformed(historyRef[1], "color") = Transformed(historyRef[2], "color")

\* C29: with spatial perspective on and a visualization other than cutout the
\* shape is cube; with cutout it is cube or sphere; otherwise the shape is cube
\* unless the shape rule is active or visual noise is on.  The size is medium
\* unless the size rule is active or visual noise is on, the position is
\* center unless the position rule is active or visual noise is on.
C29_AttributesRespectConfiguration ==
    \A s \in Stimuli :
        /\ (Spatial /\ spatialType # "cutout") => s.shape = "cube"
        /\ (Spatial /\ spatialType = "cutout") => s.shape \in {"cube", "sphere"}
        /\ (~Spatial /\ "shape" \notin Range(activeRules) /\ ~distractorsEnabled)
               => s.shape = "cube"
        /\ ("size" \notin Range(activeRules) /\ ~distractorsEnabled)
               => s.size = "medium"
        /\ ("position" \notin Range(activeRules) /\ ~distractorsEnabled)
               => s.position = "center"

\* a cutout session with visual noise: the shape drawn was a tetrahedron, the
\* stimulus is a large sphere; the stimulus before it is a large cube
C29_Witness ==
    /\ isPlaying /\ Spatial /\ spatialType = "cutout" /\ distractorsEnabled
    /\ Len(historyRef) = 2
    /\ historyRef[1].shape = "cube" /\ historyRef[1].size = "large"
    /\ LastStim.shape = "sphere" /\ LastStim.size = "large"

\* the enumeration of an attribute
Enumeration(rule) ==
    CASE rule = "color" -> COLORS
      [] rule = "shape" -> SHAPES
      [] rule = "size" -> SIZES
      [] rule = "position" -> POSITIONS

\* every table of m is a bijection on its enumeration without a fixed point
ValidTables(m) ==
    \A rule \in Range(ALL_ATTRIBUTES) :
        LET values == Range(Enumeration(rule))
        IN  /\ DOMAIN m[rule] = values
            /\ {m[rule][v] : v \in values} = values
            /\ \A v, w \in values : m[rule][v] = m[rule][w] => v = w
            /\ \A v \in values : m[rule][v] # v

C28_SpatialRules ==
    (isPlaying /\ Spatial) => currentRule \in {"color", "position"}

\* the step is a tap or a key of the given side
SideStep(side) ==
    \E env \in {LiveEnv, keyEnv}, reactionTime \in AllTimes :
        handleInput(handlePhysicalSide(side, isSwapped), env, reactionTime)

\* the action the claim gives a side under the current swap state
ActionOfSide(side) ==
    IF isSwapped
    THEN (IF side = "left" THEN "non_match" ELSE "match")
    ELSE (IF side = "left" THEN "match" ELSE "non_match")

\* C30: a physical input is judged as the action the current swap state gives
\* it: not swapped, left = match and right = non_match; swapped, left =
\* non_match and right = match.  The swap state changes only at an advance and
\* is "not swapped" in a session whenever control swap is disabled.
C30_SideMappedBySwap ==
    [][/\ \A side \in PhysicalSides :
            (ResponseAccepted /\ SideStep(side)) =>
                /\ ScoredCorrect \/ ScoredIncorrect
                /\ ScoredCorrect <=> Judged(ActionOfSide(side))
       /\ isSwapped' # isSwapped => (TimerAdvance \/ InitialAdvance)
       /\ (isPlaying' /\ ~controlSwapEnabled') => ~isSwapped']_vars

\* a swapped trial whose stimulus differs in colour from the one before it,
\* answered correctly: the side pressed was the left one
C30_Witness ==
    /\ isPlaying /\ controlSwapEnabled /\ isSwapped /\ hasResponded
    /\ Len(historyRef) = 2
    /\ LastStim.color # BackStim.color
    /\ feedbackMsg = "FAST! +10"

\* the step is toggleRule(rule) of the configuration modal
ToggleStep(rule) == ~isPlaying /\ ~effectDue /\ toggleRule(rule)

\* rules is a non-empty list of distinct attributes
ValidRules(rules) ==
    /\ Len(rules) > 0
    /\ Range(rules) \subseteq Range(ALL_ATTRIBUTES)
    /\ \A i, j \in 1..Len(rules) : rules[i] = rules[j] => i = j

\* C31: after any sequence of rule toggles the active rules are a non-empty
\* duplicate-free subset of the four attributes; toggling off the last
\* remaining rule leaves it selected; the rule chosen at every advance is one
\* of the active rules.
C31_ActiveRulesValid ==
    [][/\ ValidRules(activeRules')
       /\ \A rule \in RulesToggled :
            (ToggleStep(rule) /\ activeRules = <<rule>>)
                => activeRules' = <<rule>>
       /\ (TimerAdvance \/ InitialAdvance)
            => currentRule' \in Range(activeRules')]_vars

\* a session judged by position with color toggled off: position is the only
\* rule left, and a toggle of it would be the removal of the last rule
C31_Witness ==
    /\ isPlaying /\ activeRules = <<"position">>
    /\ currentRule = "position" /\ Len(historyRef) = 2

\* C32: the trial history is append-only within a session: every advance
\* appends exactly one stimulus and leaves the earlier entries unchanged, a
\* start leaves the one stimulus of its initial advance, no other step
\* (response, stop, tick, timeout) changes it, and its length equals the
\* total-trials counter in every reachable state.
C32_HistoryAppendOnly ==
    [][/\ Len(historyRef) = totalTurns
       /\ Len(historyRef') = totalTurns'
       /\ TimerAdvance =>
            /\ Len(historyRef') = Len(historyRef) + 1
            /\ SubSeq(historyRef', 1, Len(historyRef)) = historyRef
       /\ InitialAdvance => Len(historyRef') = 1
       /\ ~(TimerAdvance \/ InitialAdvance) => historyRef' = historyRef]_vars

\* a session ended by the timeout on its third trial, after a response: the
\* three stimuli are still there, in the order they were shown
C32_Witness ==
    /\ ~isPlaying /\ Len(storedHistory) >= 1 /\ feedbackMsg # "Stopped"
    /\ Len(historyRef) = 3 /\ totalTurns = 3 /\ hasResponded
    /\ \A i \in 1..3 : historyRef[i].id = i

\* C33: after the load every configuration field holds a valid value: a
\* persisted item that is missing or malformed leaves the built-in default
\* (no non-numeric duration, no unknown perspective type or strategy).
C33_LoadedConfigurationValid ==
    /\ ValidRules(activeRules)
    /\ perspectiveType \in {"symbolic", "spatial"}
    /\ spatialMatchMode \in {"view", "object"}
    /\ spatialType \in {"rotation", "folding", "cutout", "instant"}
    /\ gameDurationSeconds # NaN

\* C34: the block trial counter never exceeds 20, and whenever an advance
\* ends a block (the counter restarts at 1) the block had exactly 20 trials.
C34_BlockOfTwenty ==
    [][/\ blockTurnCount' <= BLOCK_SIZE
       /\ (TimerAdvance /\ blockTurnCount' = 1)
            => blockTurnCount = BLOCK_SIZE]_vars

\* C35: every timer-driven advance makes its miss check and its per-block
\* decision with the n-back level and the auto-progress setting in force when
\* it runs: its penalty, its mistake counts, its block counters and the level
\* it leaves are those nextTurn computes from the live values.
C35_AdvanceReadsLiveValues ==
    [][TimerAdvance =>
        \E t \in turnTimers, rnd \in Rnd :
            LET pre == [Current EXCEPT !.turnTimers = turnTimers \ {t}]
                r   == nextTurn(pre, FALSE, LiveEnv, rnd)
            IN  /\ scoreRef' = r.scoreRef
                /\ totalMistakes' = r.totalMistakes
                /\ blockMistakes' = r.blockMistakes
                /\ blockTurnCount' = r.blockTurnCount
                /\ nBack' = r.nBack]_vars

\* an accuracy <<numerator, denominator>> lies in 0..100 %
InPercentRange(accuracy) ==
    /\ accuracy[2] > 0
    /\ 0 <= accuracy[1]
    /\ accuracy[1] <= 100 * accuracy[2]

\* C36: each trial contributes at most one mistake: a step adds at most one
\* mistake, and the advance that ends an answered trial adds none; so
\* 0 <= total mistakes <= total trials and 0 <= block mistakes <= block trials
\* (the miss of the trial that ends included), and the accuracy of every
\* recorded session lies in 0..100 %.
C36_MistakesWithinTrials ==
    [][/\ 0 <= totalMistakes' /\ totalMistakes' <= totalTurns'
       /\ 0 <= blockMistakes' /\ blockMistakes' <= blockTurnCount'
       /\ totalMistakes' <= totalMistakes + 1
       /\ blockMistakes' <= blockMistakes + 1
       /\ (TimerAdvance /\ hasResponded) => totalMistakes' = totalMistakes
       /\ TimerAdvance =>
            blockMistakes + (totalMistakes' - totalMistakes) <= blockTurnCount
       /\ \A i \in 1..Len(storedHistory') :
            InPercentRange(storedHistory'[i].accuracy)]_vars

\* a session of three trials ended by the timeout with two mistakes, the
\* second one an incorrect response to the third trial
C36_Witness ==
    /\ ~isPlaying /\ Len(storedHistory) >= 1
    /\ LastRecord.accuracy = <<100, 3>>
    /\ totalTurns = 3 /\ totalMistakes = 2 /\ blockMistakes = 2
    /\ hasResponded

\* C37: in a timed session with configured duration D >= 0 the remaining time
\* is in 0..D in every reachable state; a tick decreases it by exactly 1 and
\* no tick occurs while no session is running.
C37_RemainingTimeInRange ==
    [][/\ (isPlaying' /\ useTimer') =>
            (0 <= timeLeftSeconds' /\ timeLeftSeconds' <= gameDurationSeconds')
       /\ timeLeftSeconds' # timeLeftSeconds =>
            \/ InitialAdvance
            \/ isPlaying /\ timeLeftSeconds' = timeLeftSeconds - 1]_vars

\* C38: while a session is running exactly one advance is pending: with delay
\* 3500 if the trial has no accepted response, with delay 500 after the
\* accepted response (the 3500 deadline is then cancelled); and every trial
\* below the explored number of trials is eventually followed by the next
\* advance unless the session ends.
C38_TrialFollowedByAdvance ==
    /\ [](isPlaying =>
            /\ Cardinality(turnTimers) = 1
            /\ \A t \in turnTimers :
                /\ t.id = turnTimerRef
                /\ t.delay = IF hasResponded THEN RESPONSE_DELAY_MS
                             ELSE INTERVAL_MS)
    /\ \A n \in 1..(MaxTurns - 1) :
            (isPlaying /\ totalTurns = n)
                ~> (~isPlaying \/ totalTurns = n + 1)

\* the third trial, reached after a correct response to the second one: its
\* own deadline of 3500 is pending
C38_Witness ==
    /\ isPlaying /\ totalTurns = 3 /\ ~hasResponded /\ score > 0
    /\ \E t \in turnTimers : t.delay = INTERVAL_MS

\* C39: every running timed session eventually becomes idle without any
\* input; its countdown starts at the advance that makes the history n-back +
\* 1 long; unless it is stopped it ends by the timeout at time <= 0, and its
\* summary is then recorded.
C39_TimedSessionEnds ==
    /\ (isPlaying /\ useTimer) ~> ~isPlaying
    /\ [][/\ CountdownStarted => Len(historyRef') = nBack + 1
          /\ (isPlaying /\ useTimer /\ ~isPlaying') =>
                \/ StopStep
                \/ /\ TimeoutEnd
                   /\ timeLeftSeconds <= 0
                   /\ Len(storedHistory') = Len(storedHistory) + 1]_vars

\* two unattended timed sessions have ended by the timeout, the second one
\* played at level 2 and recorded with it
C39_Witness ==
    /\ ~isPlaying /\ useTimer /\ Len(storedHistory) = 2
    /\ LastRecord.maxNBack = 2 /\ nBack = 3
    /\ totalTurns = 3 /\ feedbackMsg = "LEVEL UP!"

====
